---- MODULE Spec2Model ----
(***************************************************************************)
(* Model of the batch renamer (src/批量重命名.py): the plan builder, the   *)
(* conflict resolver, the two-phase rename executor and the CLI pipeline   *)
(* that chains them.                                                       *)
(*                                                                         *)
(* A file name is a sequence of one-character strings; a path is a record  *)
(* [dir, name]; the file system is a function from the paths that exist to *)
(* the identity of the content stored there (the path the content had when *)
(* the run started).                                                       *)
(***************************************************************************)
EXTENDS Integers, Sequences, FiniteSets, TLC

VARIABLES
    fs,          \* the directory tree: path -> content identity
    fs0,         \* the directory tree when the run started
    overwrite,   \* platform: TRUE = rename replaces an existing target (POSIX),
                 \*           FALSE = rename raises FileExistsError (Windows)
    faults,      \* the rename attempts on which the OS raises: <<phase, index>>
    tmp_tag,     \* two_phase_rename: tmp_tag
    to_apply,    \* two_phase_rename: the items handed to it
    temp_pairs,  \* two_phase_rename: temp_pairs
    logs,        \* two_phase_rename: logs
    ok,          \* two_phase_rename: ok
    skipped,     \* two_phase_rename: skipped
    idx,         \* position of the running loop (1-based)
    pc,          \* control point
    stat,        \* path -> [mtime, ctime] of the file the run found there
    rules,       \* run_cli: rules
    plan,        \* run_cli: plan
    printed,     \* run_cli: what the preview printed
    call,        \* render_template: the arguments of a call
    rendered     \* render_template: what the call returned

vars == <<fs, fs0, overwrite, faults, tmp_tag, to_apply, temp_pairs, logs, ok,
          skipped, idx, pc, stat, rules, plan, printed, call, rendered>>

(***************************************************************************)
(* Bounds of the model.                                                    *)
(***************************************************************************)
MaxItems == 3
MaxFaults == 1
MaxFiles == 3
MaxLimit == 2

(***************************************************************************)
(* Strings.                                                                *)
(***************************************************************************)
\* the characters names and templates are written with, in code-point order
Ascii ==
    <<" ", "#", "+", "-", ".", "0", "1", "2", "3", "4", "5", "6", "7", "8", "9",
      ":", "=", "A", "B", "C", "D", "E", "F", "G", "H", "I", "J", "K", "L", "M",
      "N", "O", "P", "Q", "R", "S", "T", "U", "V", "W", "X", "Y", "Z", "_",
      "a", "b", "c", "d", "e", "f", "g", "h", "i", "j", "k", "l", "m",
      "n", "o", "p", "q", "r", "s", "t", "u", "v", "w", "x", "y", "z">>

Chars == {Ascii[k] : k \in 1..Len(Ascii)}

\* the code point order of a character, as a table
Ord == [c \in Chars |-> CHOOSE k \in 1..Len(Ascii) : Ascii[k] = c]

IsUpper == [c \in Chars |-> Ord[c] >= Ord["A"] /\ Ord[c] <= Ord["Z"]]
IsLower == [c \in Chars |-> Ord[c] >= Ord["a"] /\ Ord[c] <= Ord["z"]]
IsDigit == [c \in Chars |-> Ord[c] >= Ord["0"] /\ Ord[c] <= Ord["9"]]

Lower == [c \in Chars |-> IF IsUpper[c] THEN Ascii[Ord[c] - Ord["A"] + Ord["a"]] ELSE c]
Upper == [c \in Chars |-> IF IsLower[c] THEN Ascii[Ord[c] - Ord["a"] + Ord["A"]] ELSE c]

\* str.lower, str.upper
LowerStr(s) == [k \in 1..Len(s) |-> Lower[s[k]]]
UpperStr(s) == [k \in 1..Len(s) |-> Upper[s[k]]]

\* lexicographic order of two strings, by code point
RECURSIVE StrLess(_, _)
StrLess(s, t) ==
    IF t = <<>> THEN FALSE
    ELSE IF s = <<>> THEN TRUE
    ELSE IF Head(s) = Head(t) THEN StrLess(Tail(s), Tail(t))
    ELSE Ord[Head(s)] < Ord[Head(t)]

EndsWith(s, p) == Len(s) >= Len(p) /\ SubSeq(s, Len(s) - Len(p) + 1, Len(s)) = p

\* position of the first occurrence of the character c in s at or after k, 0 if none
RECURSIVE FindChar(_, _, _)
FindChar(s, c, k) ==
    IF k > Len(s) THEN 0
    ELSE IF s[k] = c THEN k
    ELSE FindChar(s, c, k + 1)

\* str(n) for an integer n
RECURSIVE NatStr(_)
NatStr(n) ==
    IF n < 10 THEN <<Ascii[Ord["0"] + n]>>
    ELSE NatStr(n \div 10) \o <<Ascii[Ord["0"] + (n % 10)]>>

IntStr(n) == IF n < 0 THEN <<"-">> \o NatStr(0 - n) ELSE NatStr(n)

Zeros(n) == [k \in 1..n |-> "0"]

\* str.zfill: zeros go after a leading sign
Zfill(s, w) ==
    IF Len(s) >= w THEN s
    ELSE IF s # <<>> /\ Head(s) \in {"+", "-"}
    THEN <<Head(s)>> \o Zeros(w - Len(s)) \o Tail(s)
    ELSE Zeros(w - Len(s)) \o s

StartsWith(s, p) == Len(s) >= Len(p) /\ SubSeq(s, 1, Len(p)) = p

\* "__tmp_rename__", written as one character that no other name contains
TmpMarker == <<"#">>

\* the values uuid4().hex[:8] is drawn from
Tokens == {<<"x">>, <<"y">>}

TmpTag(token) == TmpMarker \o token \o <<"_">>

(***************************************************************************)
(* File names: all_suffixes, real_stem, split_segments, safe_int.          *)
(***************************************************************************)
\* index of the first character of s that is not c, Len(s) + 1 if none
RECURSIVE SkipChar(_, _, _)
SkipChar(s, c, k) ==
    IF k > Len(s) \/ s[k] # c THEN k ELSE SkipChar(s, c, k + 1)

\* "".join(p.suffixes): pathlib gives no suffix to a name that ends with a dot,
\* ignores leading dots, and cuts the rest at every dot
all_suffixes(name) ==
    IF name # <<>> /\ name[Len(name)] = "." THEN <<>>
    ELSE LET j == FindChar(name, ".", SkipChar(name, ".", 1))
         IN  IF j = 0 THEN <<>> ELSE SubSeq(name, j, Len(name))

real_stem(name) ==
    LET suf == all_suffixes(name)
    IN  IF suf # <<>> THEN SubSeq(name, 1, Len(name) - Len(suf)) ELSE name

\* str.split(delim) for a non-empty delim
RECURSIVE SplitOn(_, _, _)
SplitOn(s, delim, acc) ==
    IF s = <<>> THEN <<acc>>
    ELSE IF StartsWith(s, delim)
    THEN <<acc>> \o SplitOn(SubSeq(s, Len(delim) + 1, Len(s)), delim, <<>>)
    ELSE SplitOn(Tail(s), delim, Append(acc, Head(s)))

split_segments(stem, delim) ==
    IF delim # <<>> THEN SplitOn(stem, delim, <<>>) ELSE <<stem>>

AllDigits(s) == s # <<>> /\ \A k \in 1..Len(s) : IsDigit[s[k]]

RECURSIVE DigitsVal(_)
DigitsVal(s) ==
    IF s = <<>> THEN 0
    ELSE 10 * DigitsVal(SubSeq(s, 1, Len(s) - 1)) + (Ord[s[Len(s)]] - Ord["0"])

\* str.strip for the blank
RECURSIVE StripStr(_)
StripStr(s) ==
    IF s = <<>> THEN s
    ELSE IF Head(s) = " " THEN StripStr(Tail(s))
    ELSE IF s[Len(s)] = " " THEN StripStr(SubSeq(s, 1, Len(s) - 1))
    ELSE s

\* int(s) with a default: blanks around, one optional sign, then digits
safe_int(s, default) ==
    LET t == StripStr(s)
    IN  IF AllDigits(t) THEN DigitsVal(t)
        ELSE IF t # <<>> /\ Head(t) = "-" /\ AllDigits(Tail(t)) THEN 0 - DigitsVal(Tail(t))
        ELSE IF t # <<>> /\ Head(t) = "+" /\ AllDigits(Tail(t)) THEN DigitsVal(Tail(t))
        ELSE default

(***************************************************************************)
(* The template engine.  A template is its sequence of tokens, as the      *)
(* _PLACEHOLDER pattern cuts it: literal text, or a placeholder with the   *)
(* raw text of its key and of its filter chain (<<>> when it has none).    *)
(***************************************************************************)
Lit(text) == [kind |-> "lit", key |-> text, filters |-> <<>>]
Ph(key, filters) == [kind |-> "ph", key |-> key, filters |-> filters]

\* position of the first occurrence of old in s at or after k, 0 if none
RECURSIVE FindSub(_, _, _)
FindSub(s, old, k) ==
    IF k + Len(old) - 1 > Len(s) THEN 0
    ELSE IF SubSeq(s, k, k + Len(old) - 1) = old THEN k
    ELSE FindSub(s, old, k + 1)

RECURSIVE Interleave(_, _)
Interleave(s, new) ==
    IF s = <<>> THEN new ELSE new \o <<Head(s)>> \o Interleave(Tail(s), new)

\* str.replace(old, new): every occurrence, left to right, not overlapping
RECURSIVE ReplaceAll(_, _, _)
ReplaceAll(s, old, new) ==
    IF old = <<>> THEN Interleave(s, new)
    ELSE LET k == FindSub(s, old, 1)
         IN  IF k = 0 THEN s
             ELSE SubSeq(s, 1, k - 1) \o new
                  \o ReplaceAll(SubSeq(s, k + Len(old), Len(s)), old, new)

\* str.title: a letter that follows a letter is lowered, any other letter raised
Title(s) ==
    [k \in 1..Len(s) |->
        IF k > 1 /\ (IsUpper[s[k - 1]] \/ IsLower[s[k - 1]])
        THEN Lower[s[k]] ELSE Upper[s[k]]]

\* part.split("=", 1)[1] for a part that holds "="
AfterEq(part) == SubSeq(part, FindChar(part, "=", 1) + 1, Len(part))

\* one step of the filter chain (the body of the loop of _apply_filters)
ApplyFilter(t, raw) ==
    LET part == StripStr(raw)
    IN  IF part = <<>> THEN t
        ELSE IF part = <<"l", "o", "w", "e", "r">> THEN LowerStr(t)
        ELSE IF part = <<"u", "p", "p", "e", "r">> THEN UpperStr(t)
        ELSE IF part = <<"t", "i", "t", "l", "e">> THEN Title(t)
        ELSE IF part = <<"s", "t", "r", "i", "p">> THEN StripStr(t)
        ELSE IF StartsWith(part, <<"p", "a", "d", "=">>)
                \/ StartsWith(part, <<"z", "f", "i", "l", "l", "=">>)
        THEN LET n == safe_int(AfterEq(part), 0)
             IN  IF n > 0 /\ AllDigits(t) THEN Zfill(t, n) ELSE t
        ELSE IF StartsWith(part, <<"p", "r", "e", "f", "i", "x", "=">>)
        THEN AfterEq(part) \o t
        ELSE IF StartsWith(part, <<"s", "u", "f", "f", "i", "x", "=">>)
        THEN t \o AfterEq(part)
        ELSE IF StartsWith(part, <<"r", "e", "p", "l", "a", "c", "e", "=">>)
        THEN LET body == AfterEq(part)
                 c == FindChar(body, ":", 1)
             IN  IF c = 0 THEN t
                 ELSE ReplaceAll(t, SubSeq(body, 1, c - 1), SubSeq(body, c + 1, Len(body)))
        ELSE t

RECURSIVE ApplyParts(_, _, _)
ApplyParts(t, parts, k) ==
    IF k > Len(parts) THEN t ELSE ApplyParts(ApplyFilter(t, parts[k]), parts, k + 1)

_apply_filters(val, filters) ==
    IF StripStr(filters) = <<>> THEN val
    ELSE ApplyParts(val, SplitOn(filters, <<"|">>, <<>>), 1)

\* joiner.join(items)
RECURSIVE Join(_, _)
Join(items, joiner) ==
    IF items = <<>> THEN <<>>
    ELSE IF Len(items) = 1 THEN items[1]
    ELSE items[1] \o joiner \o Join(Tail(items), joiner)

_slice_join(items, joiner, filters) ==
    Join([k \in 1..Len(items) |-> _apply_filters(items[k], filters)], joiner)

Max(a, b) == IF a >= b THEN a ELSE b
Min(a, b) == IF a <= b THEN a ELSE b

\* the value None, which is no string
None == <<"None">>

\* str(v) for a value of vars_map: a string is itself, None is the text None
Str(v) == IF v = None THEN <<"N", "o", "n", "e">> ELSE v

\* a repl whose single index counts from the front only: a negative key is
\* out of range
ReplFrontOnly(rawkey, filters, vars_map, segs, joiner) ==
    LET key == StripStr(rawkey)
        n == Len(segs)
    IN  IF key \in DOMAIN vars_map THEN _apply_filters(Str(vars_map[key]), filters)
        ELSE IF key # <<>> /\ key[Len(key)] = "+"
        THEN LET i0 == safe_int(SubSeq(key, 1, Len(key) - 1), 0)
                 i1 == IF i0 < 0 THEN n + 1 + i0 ELSE i0
                 start == Max(1, i1)
             IN  IF i0 = 0 \/ start > n THEN <<>>
                 ELSE _slice_join(SubSeq(segs, start, n), joiner, filters)
        ELSE IF FindChar(key, ":", 1) # 0
        THEN LET c == FindChar(key, ":", 1)
                 s0 == safe_int(SubSeq(key, 1, c - 1), 0)
                 e0 == safe_int(SubSeq(key, c + 1, Len(key)), 0)
                 s1 == Max(1, IF s0 < 0 THEN n + 1 + s0 ELSE s0)
                 e1 == Min(n, IF e0 < 0 THEN n + 1 + e0 ELSE e0)
             IN  IF s0 = 0 \/ e0 = 0 \/ s1 > e1 THEN <<>>
                 ELSE _slice_join(SubSeq(segs, s1, e1), joiner, filters)
        ELSE LET i0 == safe_int(key, 0)
                 i1 == i0
             IN  IF i0 # 0 /\ 1 <= i1 /\ i1 <= n
                 THEN _apply_filters(segs[i1], filters)
                 ELSE <<>>

\* repl: the text one placeholder is replaced by
Repl(rawkey, filters, vars_map, segs, joiner) ==
    LET key == StripStr(rawkey)
        n == Len(segs)
    IN  IF key \in DOMAIN vars_map THEN _apply_filters(Str(vars_map[key]), filters)
        ELSE IF key # <<>> /\ key[Len(key)] = "+"
        THEN LET i0 == safe_int(SubSeq(key, 1, Len(key) - 1), 0)
                 i1 == IF i0 < 0 THEN n + 1 + i0 ELSE i0
                 start == Max(1, i1)
             IN  IF i0 = 0 \/ start > n THEN <<>>
                 ELSE _slice_join(SubSeq(segs, start, n), joiner, filters)
        ELSE IF FindChar(key, ":", 1) # 0
        THEN LET c == FindChar(key, ":", 1)
                 s0 == safe_int(SubSeq(key, 1, c - 1), 0)
                 e0 == safe_int(SubSeq(key, c + 1, Len(key)), 0)
                 s1 == Max(1, IF s0 < 0 THEN n + 1 + s0 ELSE s0)
                 e1 == Min(n, IF e0 < 0 THEN n + 1 + e0 ELSE e0)
             IN  IF s0 = 0 \/ e0 = 0 \/ s1 > e1 THEN <<>>
                 ELSE _slice_join(SubSeq(segs, s1, e1), joiner, filters)
        ELSE LET i0 == safe_int(key, 0)
                 i1 == IF i0 < 0 THEN n + 1 + i0 ELSE i0
             IN  IF i0 # 0 /\ 1 <= i1 /\ i1 <= n
                 THEN _apply_filters(segs[i1], filters)
                 ELSE <<>>

RECURSIVE render_template(_, _, _, _)
render_template(template, vars_map, segs, joiner) ==
    IF template = <<>> THEN <<>>
    ELSE LET tok == Head(template)
             out == IF tok.kind = "lit" THEN tok.key
                    ELSE Repl(tok.key, tok.filters, vars_map, segs, joiner)
         IN  out \o render_template(Tail(template), vars_map, segs, joiner)

\* "{ext}" in rules.template: the text of some placeholder is exactly {ext}
HasExtToken(template) ==
    \E k \in 1..Len(template) :
        template[k].kind = "ph" /\ template[k].key = <<"e", "x", "t">>
        /\ template[k].filters = <<>>

(***************************************************************************)
(* Paths and plan items.                                                   *)
(***************************************************************************)
Root == "r"

P(d, n) == [dir |-> d, name |-> n]

WithName(p, n) == [dir |-> p.dir, name |-> n]

PlanItem(s, d, c, r) == [src |-> s, dst |-> d, changed |-> c, reason |-> r]

Exists(tree, p) == p \in DOMAIN tree

(***************************************************************************)
(* Filtering, enumeration and sorting.                                     *)
(***************************************************************************)
\* Path.match for a pattern without separator: it is matched against the
\* name, "*" standing for any run of characters and "?" for one
RECURSIVE GlobMatch(_, _)
GlobMatch(pat, s) ==
    IF pat = <<>> THEN s = <<>>
    ELSE IF Head(pat) = "*"
    THEN GlobMatch(Tail(pat), s) \/ (s # <<>> /\ GlobMatch(pat, Tail(s)))
    ELSE /\ s # <<>>
         /\ (Head(pat) = "?" \/ Head(pat) = Head(s))
         /\ GlobMatch(Tail(pat), Tail(s))

should_take(path, r) ==
    /\ r.exts # <<>> =>
          \E k \in 1..Len(r.exts) : EndsWith(LowerStr(path.name), LowerStr(r.exts[k]))
    /\ r.include # <<>> =>
          \E k \in 1..Len(r.include) : GlobMatch(r.include[k], path.name)
    /\ r.exclude # <<>> =>
          ~\E k \in 1..Len(r.exclude) : GlobMatch(r.exclude[k], path.name)

\* the files collect_files finds; iterdir and rglob deliver them in an order
\* the program does not control
collect_files(tree, recursive) ==
    {p \in DOMAIN tree : recursive \/ p.dir = Root}

Perms(S) ==
    {q \in [1..Cardinality(S) -> S] : \A a, b \in 1..Cardinality(S) : a # b => q[a] # q[b]}

\* the sort key of a file: (timestamp, lowered name), the timestamp 0 for "name"
SortKey(p, st, sort_key) ==
    <<IF sort_key = "mtime" THEN st[p].mtime
      ELSE IF sort_key = "ctime" THEN st[p].ctime
      ELSE 0,
      LowerStr(p.name)>>

KeyLess(a, b) == a[1] < b[1] \/ (a[1] = b[1] /\ StrLess(a[2], b[2]))

\* x goes behind every element that does not have to come after it, so that
\* files with equal keys keep the order they came in (sorted is stable, also
\* with reverse=True)
RECURSIVE InsertSorted(_, _, _, _, _)
InsertSorted(sorted, x, st, sort_key, reverse) ==
    IF sorted = <<>> THEN <<x>>
    ELSE LET y == sorted[Len(sorted)]
             after == IF reverse
                      THEN KeyLess(SortKey(y, st, sort_key), SortKey(x, st, sort_key))
                      ELSE KeyLess(SortKey(x, st, sort_key), SortKey(y, st, sort_key))
         IN  IF after
             THEN Append(InsertSorted(SubSeq(sorted, 1, Len(sorted) - 1), x, st,
                                      sort_key, reverse), y)
             ELSE Append(sorted, x)

RECURSIVE SortInto(_, _, _, _, _, _)
SortInto(sorted, files, k, st, sort_key, reverse) ==
    IF k > Len(files) THEN sorted
    ELSE SortInto(InsertSorted(sorted, files[k], st, sort_key, reverse),
                  files, k + 1, st, sort_key, reverse)

sort_files(files, st, sort_key, sort_order) ==
    SortInto(<<>>, files, 1, st, sort_key, sort_order = "desc")

(***************************************************************************)
(* build_plan and dedupe.                                                  *)
(***************************************************************************)
\* datetime.fromtimestamp(t).isoformat(timespec="seconds"), for a whole second t
Iso(t) == <<"T">> \o IntStr(t)

\* the named variables of one file (lines 236-244)
VarsMap(p, seq_value, r, st) ==
    LET stem == real_stem(p.name)
        ext == all_suffixes(p.name)
    IN  (<<"s", "t", "e", "m">> :> stem)
        @@ (<<"e", "x", "t">> :> ext)
        @@ (<<"n", "a", "m", "e">> :> p.name)
        @@ (<<"s", "e", "q">> :> Zfill(IntStr(seq_value), Max(0, r.seq_pad)))
        @@ (<<"s", "e", "q", "_", "r", "a", "w">> :> IntStr(seq_value))
        @@ (<<"m", "t", "i", "m", "e">> :> Iso(st[p].mtime))
        @@ (<<"c", "t", "i", "m", "e">> :> Iso(st[p].ctime))

\* The patterns of --regex that are drawn.  RxOpt(a, d, b) is the pattern
\* ^(?P<a>[^d]+)(?:d(?P<b>.+))?$ for a one-character d, RxDigits(a) is
\* ^(?P<a>[0-9]+)$, NoRegex is None.
NoRegex == [kind |-> "none"]
RxOpt(a, d, b) == [kind |-> "opt", first |-> a, delim |-> d, second |-> b]
RxDigits(a) == [kind |-> "digits", first |-> a]

\* re.match(pattern, stem).groupdict(), and {} when there is no match: every
\* named group of the pattern is a key, a group that took no part in the
\* match has the value None
parse_with_regex(stem, pattern) ==
    IF pattern.kind = "digits"
    THEN IF AllDigits(stem) THEN (pattern.first :> stem) ELSE <<>>
    ELSE LET c == FindChar(stem, pattern.delim, 1)
         IN  IF stem = <<>> \/ c = 1 \/ c = Len(stem) THEN <<>>
             ELSE IF c = 0
             THEN (pattern.first :> stem) @@ (pattern.second :> None)
             ELSE (pattern.first :> SubSeq(stem, 1, c - 1))
                  @@ (pattern.second :> SubSeq(stem, c + 1, Len(stem)))

\* lines 246-248: vars_map.update(g) when a pattern is configured
Captured(p, seq_value, r, st) ==
    IF r.regex # NoRegex
    THEN parse_with_regex(real_stem(p.name), r.regex) @@ VarsMap(p, seq_value, r, st)
    ELSE VarsMap(p, seq_value, r, st)

\* the name a file is to get (lines 233-255)
NewName(p, seq_value, r, st) ==
    LET stem == real_stem(p.name)
        ext == all_suffixes(p.name)
        segs == split_segments(stem, r.delimiter)
        new_stem == render_template(r.template, Captured(p, seq_value, r, st), segs,
                                    r.slice_joiner)
    IN  IF HasExtToken(r.template) THEN new_stem ELSE new_stem \o ext

\* Path.with_name raises ValueError for these names
InvalidName(n) == n = <<>> \/ n = <<".">>

\* lines 228-231: the files the loop passes over
Taken(p, r) == ~StartsWith(p.name, TmpMarker) /\ should_take(p, r)

\* lines 257-260: the item of a file and its new name
ItemOf(p, new_name) ==
    PlanItem(p, WithName(p, new_name), new_name # p.name,
             IF new_name # p.name THEN "ok" ELSE "no-change")

\* the loop of build_plan over the sorted files, from the k-th on; the counter
\* moves on for every file that is taken, and for no other.  AddItem is the
\* rest of the loop body once the new name is rendered: with_name raises for
\* an invalid name, and build_plan with it
RECURSIVE BuildLoop(_, _, _, _, _, _), AddItem(_, _, _, _, _, _, _)

\* a loop body that moves the counter on only for a file whose name changes
AddItemIfChanged(files, k, seq_value, acc, r, st, new_name) ==
    IF InvalidName(new_name) THEN [raised |-> TRUE, plan |-> acc]
    ELSE BuildLoop(files, k + 1,
                   IF new_name # files[k].name THEN seq_value + r.seq_step ELSE seq_value,
                   Append(acc, ItemOf(files[k], new_name)), r, st)

BuildLoop(files, k, seq_value, acc, r, st) ==
    IF k > Len(files) THEN [raised |-> FALSE, plan |-> acc]
    ELSE IF ~Taken(files[k], r) THEN BuildLoop(files, k + 1, seq_value, acc, r, st)
    ELSE AddItem(files, k, seq_value, acc, r, st, NewName(files[k], seq_value, r, st))

AddItem(files, k, seq_value, acc, r, st, new_name) ==
    IF InvalidName(new_name) THEN [raised |-> TRUE, plan |-> acc]
    ELSE BuildLoop(files, k + 1, seq_value + r.seq_step,
                   Append(acc, ItemOf(files[k], new_name)), r, st)

\* plan[:preview_limit] when the limit is positive
Truncate(q, limit) == IF limit > 0 THEN SubSeq(q, 1, Min(limit, Len(q))) ELSE q

TruncateResult(res, limit) == [raised |-> res.raised, plan |-> Truncate(res.plan, limit)]

\* build_plan for the files as enumerated in the order of listing
build_plan(listing, r, st) ==
    TruncateResult(BuildLoop(sort_files(listing, st, r.sort_key, r.sort_order), 1,
                             r.seq_start, <<>>, r, st),
                   r.preview_limit)

SuffixedName(stem, sep, n, ext) == stem \o sep \o IntStr(n) \o ext

\* the while loop of dedupe: the first n whose candidate is not claimed
RECURSIVE FirstFree(_, _, _, _, _, _)
FirstFree(base, stem, ext, sep, n, seen) ==
    IF base \in seen
    THEN FirstFree(LowerStr(SuffixedName(stem, sep, n + 1, ext)), stem, ext, sep, n + 1, seen)
    ELSE n

RECURSIVE DedupeLoop(_, _, _, _, _)
DedupeLoop(q, k, seen, out, r) ==
    IF k > Len(q) THEN out
    ELSE LET it == q[k]
         IN  IF ~it.changed THEN DedupeLoop(q, k + 1, seen, Append(out, it), r)
             ELSE LET cand == it.dst
                      stem == real_stem(cand.name)
                      ext == all_suffixes(cand.name)
                      n == FirstFree(LowerStr(cand.name), stem, ext, r.suffix_sep, 0, seen)
                      final == IF n = 0 THEN cand
                               ELSE WithName(cand, SuffixedName(stem, r.suffix_sep, n, ext))
                  IN  DedupeLoop(q, k + 1, seen \cup {LowerStr(final.name)},
                                 Append(out, PlanItem(it.src, final,
                                                      final.name # it.src.name,
                                                      IF n > 0 THEN "dedup-suffix"
                                                      ELSE it.reason)),
                                 r)

dedupe(q, r) ==
    IF r.conflict # "suffix" THEN q ELSE DedupeLoop(q, 1, {}, <<>>, r)

(***************************************************************************)
(* Path.rename: raises when the source is missing, when the target exists  *)
(* on a platform whose rename does not replace, or when the OS refuses     *)
(* (fault); otherwise the source's content is under the target path, an    *)
(* existing target being replaced.                                         *)
(***************************************************************************)
Rename(tree, src, dst, ow, fault) ==
    IF fault \/ ~Exists(tree, src) \/ (Exists(tree, dst) /\ dst # src /\ ~ow)
    THEN [raised |-> TRUE, fs |-> tree]
    ELSE [raised |-> FALSE,
          fs |-> [p \in (DOMAIN tree \ {src}) \cup {dst} |->
                     IF p = dst THEN tree[src] ELSE tree[p]]]

LogEntry(k, s, d) == [kind |-> k, src |-> s, dst |-> d]

ExecState(tree, pairs, lg, nok, nskip) ==
    [fs |-> tree, temp_pairs |-> pairs, logs |-> lg, ok |-> nok, skipped |-> nskip]

(***************************************************************************)
(* two_phase_rename, phase 1: the body of the loop for one item.           *)
(***************************************************************************)
Phase1Item(st, it, tag, ow, fault) ==
    IF ~it.changed
    THEN [st EXCEPT !.skipped = @ + 1,
                    !.logs = Append(@, LogEntry("skip-nochange", it.src, it.dst))]
    ELSE IF Exists(st.fs, it.dst)
    THEN [st EXCEPT !.skipped = @ + 1,
                    !.logs = Append(@, LogEntry("skip-exists", it.src, it.dst))]
    ELSE LET tmp == WithName(it.src, tag \o it.src.name)
             r == Rename(st.fs, it.src, tmp, ow, fault)
         IN  IF r.raised
             THEN [st EXCEPT !.skipped = @ + 1,
                             !.logs = Append(@, LogEntry("fail-phase1", it.src, it.dst))]
             ELSE [st EXCEPT !.fs = r.fs,
                             !.temp_pairs = Append(@, <<tmp, it.dst>>)]

\* a phase-2 handler that undoes the item whose move failed: the file goes
\* back from its temporary name to the name it had
Phase2PairRollback(st, pair, ow, fault) ==
    LET tmp == pair[1]
        dst == pair[2]
        r == Rename(st.fs, tmp, dst, ow, fault)
        home == IF Exists(st.fs, tmp) THEN st.fs[tmp] ELSE tmp
    IN  IF r.raised
        THEN [st EXCEPT !.fs = Rename(st.fs, tmp, home, TRUE, FALSE).fs,
                        !.logs = Append(@, LogEntry("fail-phase2", tmp, dst))]
        ELSE [st EXCEPT !.fs = r.fs,
                        !.ok = @ + 1,
                        !.logs = Append(@, LogEntry("done", tmp, dst))]

(***************************************************************************)
(* two_phase_rename, phase 2: the body of the loop for one recorded pair.  *)
(* dst.parent.mkdir(parents=True, exist_ok=True) changes nothing when the  *)
(* parent exists, which it does for a destination made by with_name; a     *)
(* fault stands for either call raising.                                   *)
(***************************************************************************)
Phase2Pair(st, pair, ow, fault) ==
    LET tmp == pair[1]
        dst == pair[2]
        r == Rename(st.fs, tmp, dst, ow, fault)
    IN  IF r.raised
        THEN [st EXCEPT !.logs = Append(@, LogEntry("fail-phase2", tmp, dst))]
        ELSE [st EXCEPT !.fs = r.fs,
                        !.ok = @ + 1,
                        !.logs = Append(@, LogEntry("done", tmp, dst))]

RECURSIVE RunPhase1(_, _, _, _, _, _)
RunPhase1(st, items, k, tag, ow, flt) ==
    IF k > Len(items) THEN st
    ELSE RunPhase1(Phase1Item(st, items[k], tag, ow, <<1, k>> \in flt),
                   items, k + 1, tag, ow, flt)

RECURSIVE RunPhase2(_, _, _, _)
RunPhase2(st, k, ow, flt) ==
    IF k > Len(st.temp_pairs) THEN st
    ELSE RunPhase2(Phase2Pair(st, st.temp_pairs[k], ow, <<2, k>> \in flt),
                   k + 1, ow, flt)

\* the whole call: (ok, skipped, logs) and the directory tree it leaves
TwoPhaseRename(items, tree, tag, ow, flt) ==
    RunPhase2(RunPhase1(ExecState(tree, <<>>, <<>>, 0, 0), items, 1, tag, ow, flt),
              1, ow, flt)

(***************************************************************************)
(* The executor on its own: two_phase_rename called with a list of plan    *)
(* items whose sources are pairwise distinct (build_plan makes one item    *)
(* per enumerated file), on a directory that holds any of the files named. *)
(* A source that is no longer there makes its phase-1 rename raise.        *)
(***************************************************************************)
NameA == <<"A", ".", "t", "x", "t">>
NameB == <<"B", ".", "t", "x", "t">>
NameC == <<"C", ".", "t", "x", "t">>
NameD == <<"D", ".", "t", "x", "t">>

\* the files there can be, and the names a plan can ask for
ExecPaths == {P(Root, NameA), P(Root, NameB), P(Root, NameC)}
ExecTargets == ExecPaths \cup {P(Root, NameD)}

\* a tree holding the paths S, each with its own content
TreeOf(S) == [p \in S |-> p]

\* an item as build_plan makes it (lines 257-260)
MkItem(s, d) ==
    PlanItem(s, d, d.name # s.name, IF d.name # s.name THEN "ok" ELSE "no-change")

DistinctSources(items) ==
    \A a, b \in 1..Len(items) : a # b => items[a].src # items[b].src

ExecItems == {MkItem(s, WithName(s, d.name)) : s \in ExecPaths, d \in ExecTargets}

ExecPlans ==
    {q \in UNION {[1..n -> ExecItems] : n \in 0..MaxItems} : DistinctSources(q)}

FaultSets(n) ==
    {F \in SUBSET ({1, 2} \X (1..n)) : Cardinality(F) <= MaxFaults}

NoRules == [conflict |-> "skip"]

InitExec ==
    /\ fs0 \in {TreeOf(S) : S \in SUBSET ExecPaths}
    /\ fs = fs0
    /\ overwrite \in BOOLEAN
    /\ to_apply \in ExecPlans
    /\ faults \in FaultSets(Len(to_apply))
    /\ tmp_tag \in {TmpTag(t) : t \in Tokens}
    /\ temp_pairs = <<>>
    /\ logs = <<>>
    /\ ok = 0
    /\ skipped = 0
    /\ idx = 1
    /\ pc = "phase1"
    /\ stat = [p \in DOMAIN fs0 |-> [mtime |-> 1, ctime |-> 1]]
    /\ rules = NoRules
    /\ plan = <<>>
    /\ printed = <<>>
    /\ call = <<>>
    /\ rendered = <<>>

Cur == ExecState(fs, temp_pairs, logs, ok, skipped)

SetExec(st) ==
    /\ fs' = st.fs
    /\ temp_pairs' = st.temp_pairs
    /\ logs' = st.logs
    /\ ok' = st.ok
    /\ skipped' = st.skipped

\* lines 294-309: one iteration of the phase-1 loop
Phase1Step ==
    /\ pc = "phase1"
    /\ idx <= Len(to_apply)
    /\ SetExec(Phase1Item(Cur, to_apply[idx], tmp_tag, overwrite, <<1, idx>> \in faults))
    /\ idx' = idx + 1
    /\ UNCHANGED <<fs0, overwrite, faults, tmp_tag, to_apply, pc, stat, rules, plan, printed, call, rendered>>

\* the phase-1 loop is exhausted: the phase-2 loop starts
Phase1End ==
    /\ pc = "phase1"
    /\ idx > Len(to_apply)
    /\ pc' = "phase2"
    /\ idx' = 1
    /\ UNCHANGED <<fs, fs0, overwrite, faults, tmp_tag, to_apply, temp_pairs, logs,
                   ok, skipped, stat, rules, plan, printed, call, rendered>>

\* lines 312-319: one iteration of the phase-2 loop
Phase2Step ==
    /\ pc = "phase2"
    /\ idx <= Len(temp_pairs)
    /\ SetExec(Phase2Pair(Cur, temp_pairs[idx], overwrite, <<2, idx>> \in faults))
    /\ idx' = idx + 1
    /\ UNCHANGED <<fs0, overwrite, faults, tmp_tag, to_apply, pc, stat, rules, plan, printed, call, rendered>>

\* line 321: return ok, skipped, logs
Return ==
    /\ pc = "phase2"
    /\ idx > Len(temp_pairs)
    /\ pc' = "done"
    /\ UNCHANGED <<fs, fs0, overwrite, faults, tmp_tag, to_apply, temp_pairs, logs,
                   ok, skipped, idx, stat, rules, plan, printed, call, rendered>>

NextExec == Phase1Step \/ Phase1End \/ Phase2Step \/ Return

Spec == InitExec /\ [][NextExec]_vars

(***************************************************************************)
(* Properties of the executor, checked under Spec.                         *)
(***************************************************************************)
PA == P(Root, NameA)
PB == P(Root, NameB)
PC == P(Root, NameC)

AllChanged(items) == \A k \in 1..Len(items) : items[k].changed

LogKinds(lg, kinds) == {k \in 1..Len(lg) : lg[k].kind \in kinds}

\* the temporary path phase 1 gives the source src
TmpOf(src) == WithName(src, tmp_tag \o src.name)

\* C1: with A.txt and B.txt in the directory and the plan [A.txt -> B.txt,
\* B.txt -> A.txt] in either order, two_phase_rename returns with the two
\* contents swapped, 2 successes, 0 skipped or failed, nothing but
\* completions logged.
C1_CycleIsSwapped ==
    (/\ pc = "done"
     /\ faults = {}
     /\ DOMAIN fs0 = {PA, PB}
     /\ to_apply \in {<<MkItem(PA, PB), MkItem(PB, PA)>>, <<MkItem(PB, PA), MkItem(PA, PB)>>})
    => /\ DOMAIN fs = {PA, PB}
       /\ fs[PB] = PA
       /\ fs[PA] = PB
       /\ ok = 2
       /\ skipped = 0
       /\ \A k \in 1..Len(logs) : logs[k].kind = "done"

\* C2: for changed items with pairwise distinct sources, every file that was
\* there at the start is, at every moment, under exactly one path with its
\* content: its source, its temporary name or a destination of the plan; no
\* rename replaces a file, whether or not the platform's rename overwrites.
C2_NoDataLoss ==
    (AllChanged(to_apply) /\ DistinctSources(to_apply))
    => \A p \in DOMAIN fs0 :
          /\ Cardinality({q \in DOMAIN fs : fs[q] = p}) = 1
          /\ \A q \in DOMAIN fs :
                fs[q] = p => q \in {p, TmpOf(p)} \cup {to_apply[k].dst : k \in 1..Len(to_apply)}

SeqPerms(q) ==
    {[k \in 1..Len(q) |-> q[f[k]]] :
        f \in {g \in [1..Len(q) -> 1..Len(q)] :
                  \A a, b \in 1..Len(q) : a # b => g[a] # g[b]}}

\* the (temporary path, destination) pairs a log reports as completed
Renamed(lg) == {<<lg[k].src, lg[k].dst>> : k \in LogKinds(lg, {"done"})}

\* C3: when no rename is refused by the OS, every ordering of the same changed
\* items renames the same items and leaves the same directory tree.
C3_OrderIndependent ==
    (pc = "done" /\ faults = {} /\ AllChanged(to_apply))
    => \A q \in SeqPerms(to_apply) :
          \E r \in {TwoPhaseRename(q, fs0, tmp_tag, overwrite, {})} :
              r.fs = fs /\ Renamed(r.logs) = Renamed(logs)

\* C5: under the leave policy dedupe hands the plan on as it is, and of the
\* changed items that share a destination path at most one is moved there;
\* each of the others is logged as skipped (and counted in skipped).
C5_CollisionsAreSkipped ==
    (pc = "done" /\ faults = {} /\ rules.conflict = "skip")
    => /\ dedupe(to_apply, rules) = to_apply
       /\ \A d \in {to_apply[k].dst : k \in 1..Len(to_apply)} :
             \E K \in {{k \in 1..Len(to_apply) : to_apply[k].changed /\ to_apply[k].dst = d}} :
                 Cardinality(K) >= 2 =>
                     /\ Cardinality({k \in LogKinds(logs, {"done"}) : logs[k].dst = d}) <= 1
                     /\ Cardinality({k \in LogKinds(logs, {"skip-exists", "fail-phase1"}) :
                                        logs[k].dst = d}) >= Cardinality(K) - 1

\* C6: when two_phase_rename returns, ok + skipped is the number of items it
\* was handed.
C6_EveryItemCounted == pc = "done" => ok + skipped = Len(to_apply)

\* the phase-2 move of the pair at idx is about to raise
Phase2Raises ==
    /\ pc = "phase2"
    /\ idx <= Len(temp_pairs)
    /\ Rename(fs, temp_pairs[idx][1], temp_pairs[idx][2], overwrite, <<2, idx>> \in faults).raised

\* the phase-1 move of the item at idx is about to raise
Phase1Raises ==
    /\ pc = "phase1"
    /\ idx <= Len(to_apply)
    /\ to_apply[idx].changed
    /\ ~Exists(fs, to_apply[idx].dst)
    /\ Rename(fs, to_apply[idx].src, TmpOf(to_apply[idx].src), overwrite, <<1, idx>> \in faults).raised

\* what a step from a state where the phase-2 move raises must do
Phase2FailureStep ==
    /\ fs' = fs
    /\ ok' = ok
    /\ temp_pairs' = temp_pairs
    /\ logs' = Append(logs, LogEntry("fail-phase2", temp_pairs[idx][1], temp_pairs[idx][2]))
    /\ pc' = "phase2"
    /\ idx' = idx + 1

\* what a step from a state where the phase-1 move raises must do
Phase1FailureStep ==
    /\ fs' = fs
    /\ temp_pairs' = temp_pairs
    /\ logs' = Append(logs, LogEntry("fail-phase1", to_apply[idx].src, to_apply[idx].dst))
    /\ pc' = "phase1"
    /\ idx' = idx + 1

\* every item and every pair has its log entry, and the files whose phase-2
\* move failed are under their temporary names
AllAttempted ==
    /\ Cardinality(LogKinds(logs, {"done", "fail-phase2"})) = Len(temp_pairs)
    /\ Cardinality(LogKinds(logs, {"skip-nochange", "skip-exists", "fail-phase1"}))
          + Len(temp_pairs) = Len(to_apply)
    /\ \A k \in LogKinds(logs, {"fail-phase2"}) :
          Exists(fs, logs[k].src) /\ ~Exists(fs0, logs[k].src)

\* C7: a phase-2 move that fails is logged, leaves the directory tree as it
\* is (the file stays under its temporary name, earlier commits are not rolled
\* back) and the loop goes on with the next pair; a phase-1 failure is logged
\* and the loop goes on with the next item.  When the call returns, every pair
\* has been attempted and every file whose phase-2 move failed is still under
\* its temporary name.
C7_FailuresAreLocal ==
    /\ [][(Phase2Raises => Phase2FailureStep) /\ (Phase1Raises => Phase1FailureStep)]_vars
    /\ [](pc = "done" => AllAttempted)

\* a run in which the second of three pairs failed in phase 2, the first was
\* committed before it and the third after it
C7_Witness ==
    /\ pc = "done"
    /\ Len(logs) = 3
    /\ logs[1].kind = "done"
    /\ logs[2].kind = "fail-phase2"
    /\ logs[3].kind = "done"
    /\ Exists(fs, logs[1].dst)
    /\ Exists(fs, logs[2].src)

(***************************************************************************)
(* The command line run (run_cli) on a directory tree and a configuration. *)
(***************************************************************************)
Sub == "r/s"

CliFiles ==
    {P(Root, <<"a", "-", "b", ".", "t">>),
     P(Root, <<"b", "-", "a", ".", "t">>),
     P(Root, <<"i", "m", "g", "_", "9", ".", "u">>),
     P(Root, TmpTag(<<"y">>) \o <<"a", "-", "b", ".", "t">>),
     P(Sub, <<"A", "-", "b", ".", "t">>)}

T_stem == <<Ph(<<"s", "t", "e", "m">>, <<>>)>>
T_seq == <<Lit(<<"i", "m", "g", "_">>), Ph(<<"s", "e", "q">>, <<>>)>>
T_swap == <<Ph(<<"2">>, <<>>), Lit(<<"-">>), Ph(<<"1">>, <<>>)>>
T_first == <<Ph(<<"1">>, <<>>), Ph(<<"e", "x", "t">>, <<>>)>>
T_const == <<Lit(<<"a", "-", "b">>)>>
T_cap == <<Ph(<<"a">>, <<>>), Lit(<<"_">>), Ph(<<"b">>, <<>>)>>
T_capf == <<Ph(<<"b">>, <<"u", "p", "p", "e", "r">>), Lit(<<"x">>)>>

Templates == {T_stem, T_seq, T_swap, T_first, T_const}

\* where to look and what to take: the recursion flag, the extension
\* allow-list and the glob lists of a run
Filters ==
    {[recursive |-> FALSE, exts |-> <<>>, include |-> <<>>, exclude |-> <<>>],
     [recursive |-> TRUE, exts |-> <<<<".", "T">>>>, include |-> <<>>, exclude |-> <<>>],
     [recursive |-> FALSE, exts |-> <<>>, include |-> <<<<"*", ".", "?">>>>,
      exclude |-> <<<<"b", "*">>>>]}

\* the order and the numbering of a run
Orderings ==
    {[key |-> "name", order |-> "asc", start |-> 1, step |-> 1, pad |-> 3],
     [key |-> "mtime", order |-> "desc", start |-> 9, step |-> 2, pad |-> 0]}

\* Rules as run_cli fills it in (lines 341-360); delimiter and suffix_sep at
\* their defaults, export_plan None, no --regex; apply is the --apply flag,
\* absent (FALSE) unless given
RulesSet ==
    {[delimiter |-> <<"-">>, regex |-> NoRegex, recursive |-> f.recursive,
      include |-> f.include, exclude |-> f.exclude, exts |-> f.exts,
      template |-> t, slice_joiner |-> <<"-">>,
      conflict |-> c, suffix_sep |-> <<"_">>,
      dry_run |-> ~apply, preview_limit |-> lim,
      sort_key |-> o.key, sort_order |-> o.order,
      seq_start |-> o.start, seq_step |-> o.step, seq_pad |-> o.pad] :
        f \in Filters, t \in Templates, c \in {"skip", "suffix"},
        apply \in BOOLEAN, lim \in 0..MaxLimit, o \in Orderings}

\* the runs with --regex: a pattern with an optional second group, and one
\* that matches no stem of CliFiles; everything else at its default but seq_pad
RegexRules ==
    {[delimiter |-> <<"-">>, regex |-> x, recursive |-> FALSE,
      include |-> <<>>, exclude |-> <<>>, exts |-> <<>>,
      template |-> t, slice_joiner |-> <<"-">>,
      conflict |-> "skip", suffix_sep |-> <<"_">>,
      dry_run |-> ~apply, preview_limit |-> 0,
      sort_key |-> "name", sort_order |-> "asc",
      seq_start |-> 1, seq_step |-> 1, seq_pad |-> 3] :
        x \in {RxOpt(<<"a">>, "-", <<"b">>), RxDigits(<<"a">>)},
        t \in {T_cap, T_capf}, apply \in BOOLEAN}

\* timestamps: all files written in the same second, or each in its own
Rank(S, p) == Cardinality({q \in S : StrLess(q.name, p.name) \/ (q.name = p.name /\ q.dir = Root)})

StatChoices(S) ==
    {[p \in S |-> [mtime |-> 1, ctime |-> 1]],
     [p \in S |-> [mtime |-> Cardinality(S) - Rank(S, p), ctime |-> 1]]}

InitCli ==
    /\ fs0 \in {TreeOf(S) : S \in {T \in SUBSET CliFiles : Cardinality(T) <= MaxFiles}}
    /\ fs = fs0
    /\ stat \in StatChoices(DOMAIN fs0)
    /\ rules \in RulesSet \cup RegexRules
    /\ overwrite \in BOOLEAN
    /\ faults = {}
    /\ tmp_tag = <<>>
    /\ to_apply = <<>>
    /\ temp_pairs = <<>>
    /\ logs = <<>>
    /\ ok = 0
    /\ skipped = 0
    /\ idx = 0
    /\ plan = <<>>
    /\ printed = <<>>
    /\ call = <<>>
    /\ rendered = <<>>
    /\ pc = "start"

\* lines 362-364: the plan is built; an exception of build_plan ends the run,
\* an empty plan returns at once
CliBuild ==
    /\ pc = "start"
    /\ \E listing \in Perms(collect_files(fs, rules.recursive)) :
          \E res \in {build_plan(listing, rules, stat)} :
              /\ plan' = IF res.raised THEN <<>> ELSE res.plan
              /\ pc' = IF res.raised THEN "aborted"
                       ELSE IF res.plan = <<>> THEN "done" ELSE "built"
    /\ UNCHANGED <<fs, fs0, overwrite, faults, tmp_tag, to_apply, temp_pairs, logs, ok,
                   skipped, idx, stat, rules, printed, call, rendered>>

\* line 365
CliDedupe ==
    /\ pc = "built"
    /\ plan' = dedupe(plan, rules)
    /\ pc' = "deduped"
    /\ UNCHANGED <<fs, fs0, overwrite, faults, tmp_tag, to_apply, temp_pairs, logs, ok,
                   skipped, idx, stat, rules, printed, call, rendered>>

\* the lines of the preview: source name, mark, destination name
PreviewOf(q) == [k \in 1..Len(q) |-> <<q[k].src.name, q[k].changed, q[k].dst.name>>]

\* lines 367-376: one line per item of the plan
CliPreview ==
    /\ pc = "deduped"
    /\ printed' = PreviewOf(plan)
    /\ pc' = "previewed"
    /\ UNCHANGED <<fs, fs0, overwrite, faults, tmp_tag, to_apply, temp_pairs, logs, ok,
                   skipped, idx, stat, rules, plan, call, rendered>>

\* lines 378-380
CliDryReturn ==
    /\ pc = "previewed"
    /\ rules.dry_run
    /\ pc' = "done"
    /\ UNCHANGED <<fs, fs0, overwrite, faults, tmp_tag, to_apply, temp_pairs, logs, ok,
                   skipped, idx, stat, rules, plan, printed, call, rendered>>

\* the changed items of a plan, in plan order (line 382)
ChangedOf(q) == SelectSeq(q, LAMBDA it : it.changed)

\* the tags a run can draw: the token is random, and no file carries it
FreshTags(tree) ==
    {TmpTag(t) : t \in {u \in Tokens : \A p \in DOMAIN tree : ~StartsWith(p.name, TmpTag(u))}}

\* a run that goes on to two_phase_rename whatever dry_run says
CliApplyAlways ==
    /\ pc = "previewed"
    /\ to_apply' = ChangedOf(plan)
    /\ tmp_tag' \in FreshTags(fs)
    /\ temp_pairs' = <<>>
    /\ logs' = <<>>
    /\ ok' = 0
    /\ skipped' = 0
    /\ idx' = 1
    /\ pc' = "phase1"
    /\ UNCHANGED <<fs, fs0, overwrite, faults, stat, rules, plan, printed, call, rendered>>

\* lines 382-383 and 287-291: two_phase_rename is entered
CliApply ==
    /\ pc = "previewed"
    /\ ~rules.dry_run
    /\ to_apply' = ChangedOf(plan)
    /\ tmp_tag' \in FreshTags(fs)
    /\ temp_pairs' = <<>>
    /\ logs' = <<>>
    /\ ok' = 0
    /\ skipped' = 0
    /\ idx' = 1
    /\ pc' = "phase1"
    /\ UNCHANGED <<fs, fs0, overwrite, faults, stat, rules, plan, printed, call, rendered>>

NextCli ==
    \/ CliBuild \/ CliDedupe \/ CliPreview \/ CliDryReturn \/ CliApply
    \/ Phase1Step \/ Phase1End \/ Phase2Step \/ Return

SpecCli == InitCli /\ [][NextCli]_vars

(***************************************************************************)
(* Properties of the planner and of the command line run, checked under    *)
(* SpecCli.                                                                *)
(***************************************************************************)
\* the plan has been through dedupe
Deduped == pc \in {"deduped", "previewed", "phase1", "phase2"} \/ (pc = "done" /\ plan # <<>>)

\* the k-th item of a plan went into dedupe as a changed item (dedupe
\* leaves the reason no-change to the items it passes through, and to no other)
WasChanged(q, k) == q[k].reason # "no-change"

\* C4: under the auto-suffix policy the plan dedupe returns holds no two
\* items, changed or not, whose destination names are equal when lowered;
\* stated for the pairs of which one item at least went into dedupe as
\* changed, the pairs a conflict resolver has a say in.
C4_SuffixDestinationsUnique ==
    (Deduped /\ rules.conflict = "suffix")
    => \A a, b \in 1..Len(plan) :
          (a # b /\ WasChanged(plan, a))
          => LowerStr(plan[a].dst.name) # LowerStr(plan[b].dst.name)

\* the run of the same directory and configuration without the preview cap
Uncapped == [rules EXCEPT !.preview_limit = 0]

\* C8: a run with apply and a preview cap k > 0 leaves the directory as the
\* run with no cap leaves it, having renamed the same files.
C8_PreviewCapOnlyDisplay ==
    (pc = "done" /\ ~rules.dry_run /\ rules.preview_limit > 0 /\ plan # <<>>)
    => \E listing \in Perms(collect_files(fs0, rules.recursive)) :
          \E full \in {build_plan(listing, Uncapped, stat)} :
              \E r \in {TwoPhaseRename(ChangedOf(dedupe(full.plan, Uncapped)), fs0,
                                       tmp_tag, overwrite, {})} :
                  ~full.raised /\ r.fs = fs /\ Renamed(r.logs) = Renamed(logs)

\* the files of the directory that pass the filtering of build_plan
Survivors == {p \in collect_files(fs, rules.recursive) : Taken(p, rules)}

\* a comes before b in the configured order
Before(a, b) ==
    IF rules.sort_order = "desc"
    THEN KeyLess(SortKey(b, stat, rules.sort_key), SortKey(a, stat, rules.sort_key))
    ELSE KeyLess(SortKey(a, stat, rules.sort_key), SortKey(b, stat, rules.sort_key))

\* the zero-padded sequence value of the i-th item (1-based) of a plan
SeqText(i) ==
    Zfill(IntStr(rules.seq_start + (i - 1) * rules.seq_step), Max(0, rules.seq_pad))

\* C9: the plan build_plan returns holds the surviving files in sort order,
\* one item each (cut at the preview cap), and with the template img_{seq}
\* the i-th of them (0-based) is named after seq_start + i * seq_step,
\* whether or not files were filtered out before it and whether or not an
\* earlier file kept its name.
C9_SeqPerSurvivingFile ==
    (pc = "built" /\ rules.template = T_seq)
    => /\ Len(plan) = IF rules.preview_limit > 0
                      THEN Min(rules.preview_limit, Cardinality(Survivors))
                      ELSE Cardinality(Survivors)
       /\ \A i \in 1..Len(plan) :
             /\ plan[i].src \in Survivors
             /\ plan[i].dst.name = <<"i", "m", "g", "_">> \o SeqText(i)
                                      \o all_suffixes(plan[i].src.name)
             /\ \A j \in 1..Len(plan) : i < j => ~Before(plan[j].src, plan[i].src)
             /\ \A j \in 1..Len(plan) : i # j => plan[i].src # plan[j].src
             /\ \A p \in Survivors :
                   (\A j \in 1..Len(plan) : plan[j].src # p) => ~Before(p, plan[i].src)

\* a plan whose first file keeps its name, with a file that is filtered out
\* sorted between it and the second
C9_Witness ==
    /\ pc = "built"
    /\ rules.template = T_seq
    /\ Len(plan) = 2
    /\ ~plan[1].changed
    /\ plan[2].changed
    /\ \E p \in collect_files(fs, rules.recursive) :
          ~Taken(p, rules) /\ Before(plan[1].src, p) /\ Before(p, plan[2].src)

\* C10: a run without apply (dry_run) never enters two_phase_rename and
\* leaves every file where it was; a run is inside two_phase_rename only with
\* apply given, the plan previewed and the changed items of the plan as its
\* argument, and it enters two_phase_rename with the plan that build_plan and
\* dedupe make of the directory.
C10_PreviewOnlyByDefault ==
    /\ rules.dry_run =>
          /\ fs = fs0
          /\ pc \notin {"phase1", "phase2"}
          /\ to_apply = <<>> /\ temp_pairs = <<>> /\ logs = <<>> /\ ok = 0 /\ skipped = 0
    /\ pc \in {"phase1", "phase2"} =>
          /\ ~rules.dry_run
          /\ printed = PreviewOf(plan)
          /\ to_apply = ChangedOf(plan)
    /\ (pc = "phase1" /\ idx = 1) =>
          /\ fs = fs0
          /\ \E listing \in Perms(collect_files(fs0, rules.recursive)) :
                \E res \in {build_plan(listing, rules, stat)} :
                    ~res.raised /\ res.plan # <<>> /\ plan = dedupe(res.plan, rules)

\* a preview-only run that ended with a plan asking for a rename
C10_Witness ==
    /\ rules.dry_run
    /\ pc = "done"
    /\ printed = PreviewOf(plan)
    /\ \E k \in 1..Len(plan) : plan[k].changed
\* the text of the named group k in the captures g of a stem: empty when the
\* pattern did not match or the group took no part in the match
Capture(g, k) == IF k \in DOMAIN g /\ g[k] # None THEN g[k] ELSE <<>>

\* C11: in a run with --regex, a placeholder that names a group which is
\* missing for a file (no match, or an optional group that took no part)
\* renders as the empty string: under the template {a}_{b} the new name is
\* the text of a, "_", the text of b and the extension, under {b|upper}x it
\* is the upper-cased text of b, "x" and the extension.
C11_MissingCapturesAreEmpty ==
    (pc = "built" /\ rules.regex # NoRegex)
    => \A i \in 1..Len(plan) :
          \E g \in {parse_with_regex(real_stem(plan[i].src.name), rules.regex)} :
              /\ rules.template = T_cap =>
                    plan[i].dst.name = Capture(g, <<"a">>) \o <<"_">> \o Capture(g, <<"b">>)
                                          \o all_suffixes(plan[i].src.name)
              /\ rules.template = T_capf =>
                    plan[i].dst.name = UpperStr(Capture(g, <<"b">>)) \o <<"x">>
                                          \o all_suffixes(plan[i].src.name)

\* C12: the plan build_plan returns (its order and its sequence numbers) is
\* the same for every order in which the enumeration of the directory
\* delivers the same files.
C12_DeterministicOrder ==
    pc = "built"
    => \A listing \in Perms(collect_files(fs, rules.recursive)) :
          \E res \in {build_plan(listing, rules, stat)} :
              ~res.raised /\ res.plan = plan

(***************************************************************************)
(* render_template called on its own: a template of one placeholder with   *)
(* an integer key, over every segment list and key within the bounds.      *)
(***************************************************************************)
MaxSegs == 3
MaxBeyond == 2

\* the segments split_segments can deliver; "a--b" has an empty one
SegTexts == {<<>>, <<"a">>, <<"b", "7">>}

SegLists == UNION {[1..n -> SegTexts] : n \in 1..MaxSegs}

\* the ways the key k is written in a template: {k}, { k }, and {+k}
KeyTexts(k) ==
    {IntStr(k), <<" ">> \o IntStr(k) \o <<" ">>}
        \cup (IF k >= 0 THEN {<<"+">> \o IntStr(k)} ELSE {})

\* the filter chains of the placeholder: none, upper, suffix=x
FilterTexts ==
    {<<>>, <<"u", "p", "p", "e", "r">>, <<"s", "u", "f", "f", "i", "x", "=", "x">>}

\* named variables as build_plan passes them; no name is an integer
NamedVars ==
    (<<"s", "t", "e", "m">> :> <<"z">>) @@ (<<"e", "x", "t">> :> <<".", "t">>)
        @@ (<<"a">> :> None)

\* the keys of the calls: the integer and the text it is written as
Keys ==
    UNION {{[k |-> j, text |-> t] : t \in KeyTexts(j)} :
              j \in -(MaxSegs + MaxBeyond)..(MaxSegs + MaxBeyond)}

InitRender ==
    /\ call \in {[k |-> key.k, template |-> <<Ph(key.text, f)>>, vars_map |-> NamedVars,
                  segs |-> sg, joiner |-> <<"-">>] :
                    key \in Keys, f \in FilterTexts, sg \in SegLists}
    /\ rendered = <<>>
    /\ pc = "render"
    /\ fs0 = TreeOf({})
    /\ fs = fs0
    /\ stat = <<>>
    /\ rules = NoRules
    /\ overwrite = FALSE
    /\ faults = {}
    /\ tmp_tag = <<>>
    /\ to_apply = <<>>
    /\ temp_pairs = <<>>
    /\ logs = <<>>
    /\ ok = 0
    /\ skipped = 0
    /\ idx = 0
    /\ plan = <<>>
    /\ printed = <<>>

\* line 187: the call returns
RenderStep ==
    /\ pc = "render"
    /\ rendered' = render_template(call.template, call.vars_map, call.segs, call.joiner)
    /\ pc' = "rendered"
    /\ UNCHANGED <<fs, fs0, overwrite, faults, tmp_tag, to_apply, temp_pairs, logs, ok,
                   skipped, idx, stat, rules, plan, printed, call>>

NextRender == RenderStep

SpecRender == InitRender /\ [][NextRender]_vars

\* what the filter chain of the call makes of a segment
Filtered(seg) ==
    IF call.template[1].filters = <<>> THEN seg
    ELSE IF call.template[1].filters = <<"u", "p", "p", "e", "r">> THEN UpperStr(seg)
    ELSE seg \o <<"x">>

\* C13: for N segments and an integer key k, {k} renders the filtered segment
\* k when 1 <= k <= N, the filtered segment N + 1 + k when -N <= k <= -1, and
\* the empty string when k = 0, k > N or k < -N, whatever the filters.
C13_SingleIndex ==
    pc = "rendered"
    => \E N \in {Len(call.segs)} :
          rendered = IF 1 <= call.k /\ call.k <= N THEN Filtered(call.segs[call.k])
                     ELSE IF -N <= call.k /\ call.k <= -1
                     THEN Filtered(call.segs[N + 1 + call.k])
                     ELSE <<>>

\* {-1|upper} over three segments rendered the last one, in upper case
C13_Witness ==
    /\ pc = "rendered"
    /\ call.k = -1
    /\ call.segs = <<<<"a">>, <<>>, <<"b", "7">>>>
    /\ call.template[1].filters = <<"u", "p", "p", "e", "r">>
    /\ rendered = <<"B", "7">>

(***************************************************************************)
(* The executor once more (checked under Spec): what a run in which no     *)
(* rename raised leaves behind.                                            *)
(***************************************************************************)
\* the items of to_apply that phase 1 moved to a temporary name
Parked == {k \in 1..Len(to_apply) :
              \E j \in 1..Len(temp_pairs) :
                  temp_pairs[j] = <<TmpOf(to_apply[k].src), to_apply[k].dst>>}

\* C14: when two_phase_rename returns and no rename has raised, no file has a
\* name that starts with the run's tag, the file of every item that phase 1
\* did not skip is under the item's destination path, and there are as many
\* recorded pairs as successes.
C14_TempNamespaceEmptied ==
    (pc = "done" /\ LogKinds(logs, {"fail-phase1", "fail-phase2"}) = {})
    => /\ \A p \in DOMAIN fs : ~StartsWith(p.name, tmp_tag)
       /\ \A k \in Parked :
             Exists(fs, to_apply[k].dst) /\ fs[to_apply[k].dst] = fs0[to_apply[k].src]
       /\ Len(temp_pairs) = ok

====
